---- MODULE Spec2Model ----
(***************************************************************************)
(* Model of compute_suggestion (src/app.py), the aggregation engine of the *)
(* group planner: from the availability records of one date it computes   *)
(* the window in which the most people are free and the majority event.   *)
(*                                                                         *)
(* A time of day is the text "HH:MM" as the record store keeps it; it is  *)
(* modelled as the tuple of its four digits <<H,H,M,M>> (the colon is the *)
(* same character in every string and never decides a comparison).  Texts *)
(* are compared as texts (sorted() on line 127, ORDER BY on line 62) and  *)
(* parsed to minutes since midnight where the code calls strptime.        *)
(* An event label is a sequence of one-character strings.                 *)
(***************************************************************************)
EXTENDS Integers, Sequences, FiniteSets, TLC

VARIABLES records, pc, by_person, timeline, free_counts, best_blocks,
          votes, top_key, result

vars == <<records, pc, by_person, timeline, free_counts, best_blocks,
          votes, top_key, result>>

TIME_STEP_MINUTES == 30

(* Largest number of records in a generated record list. *)
MaxRecords == 3

(***************************************************************************)
(* Text and time conversions                                               *)
(***************************************************************************)

(* datetime.strptime(f"{date_str} {s}", "%Y-%m-%d %H:%M"): minutes since   *)
(* midnight of the date.                                                   *)
Strptime(s) == (s[1] * 10 + s[2]) * 60 + s[3] * 10 + s[4]

(* datetime.strftime("%H:%M"): the hour of the day and the minute, each    *)
(* zero padded; a datetime past midnight shows the hour of the next day.   *)
Strftime(m) ==
    LET h  == (m \div 60) % 24
        mi == m % 60
    IN  <<h \div 10, h % 10, mi \div 10, mi % 10>>

(* Python's str comparison a <= b on two "HH:MM" texts: lexicographic. *)
RECURSIVE StrLeqFrom(_, _, _)
StrLeqFrom(a, b, i) ==
    IF i > Len(a) THEN TRUE
    ELSE IF i > Len(b) THEN FALSE
    ELSE IF a[i] < b[i] THEN TRUE
    ELSE IF a[i] > b[i] THEN FALSE
    ELSE StrLeqFrom(a, b, i + 1)

StrLeq(a, b) == StrLeqFrom(a, b, 1)

UpperCase == <<"A", "B", "C", "D", "E", "F", "G", "H", "I", "J", "K", "L", "M",
               "N", "O", "P", "Q", "R", "S", "T", "U", "V", "W", "X", "Y", "Z">>
LowerCase == <<"a", "b", "c", "d", "e", "f", "g", "h", "i", "j", "k", "l", "m",
               "n", "o", "p", "q", "r", "s", "t", "u", "v", "w", "x", "y", "z">>

LowerOf ==
    [c \in {UpperCase[i] : i \in 1..Len(UpperCase)} |->
        LowerCase[CHOOSE i \in 1..Len(UpperCase) : UpperCase[i] = c]]

LowerChar(c) == IF c \in DOMAIN LowerOf THEN LowerOf[c] ELSE c

(* str.lower() *)
RECURSIVE Lower(_)
Lower(label) ==
    IF label = <<>> THEN <<>> ELSE <<LowerChar(Head(label))>> \o Lower(Tail(label))

(* str.strip(): drops the leading and the trailing blanks. *)
RECURSIVE LStrip(_)
LStrip(label) ==
    IF label # <<>> /\ Head(label) = " " THEN LStrip(Tail(label)) ELSE label

RECURSIVE RStrip(_)
RStrip(label) ==
    IF label # <<>> /\ label[Len(label)] = " "
    THEN RStrip(SubSeq(label, 1, Len(label) - 1))
    ELSE label

Strip(label) == RStrip(LStrip(label))

(* sorted(all_times): ascending text order (insertion sort; only the order *)
(* of the result matters, equal texts are indistinguishable).              *)
RECURSIVE InsertStr(_, _)
InsertStr(x, sorted) ==
    IF sorted = <<>> THEN <<x>>
    ELSE IF StrLeq(x, Head(sorted)) THEN <<x>> \o sorted
    ELSE <<Head(sorted)>> \o InsertStr(x, Tail(sorted))

RECURSIVE SortedStr(_)
SortedStr(seq) ==
    IF seq = <<>> THEN <<>> ELSE InsertStr(Head(seq), SortedStr(Tail(seq)))

(* sorted(pairs, key=first component, reverse=True): descending by key and *)
(* stable, so items of equal key keep their original relative order.       *)
RECURSIVE InsertDesc(_, _)
InsertDesc(sorted, x) ==
    IF sorted = <<>> THEN <<x>>
    ELSE IF Head(sorted)[1] >= x[1] THEN <<Head(sorted)>> \o InsertDesc(Tail(sorted), x)
    ELSE <<x>> \o sorted

RECURSIVE SortedDescFrom(_, _)
SortedDescFrom(pairs, acc) ==
    IF pairs = <<>> THEN acc
    ELSE SortedDescFrom(Tail(pairs), InsertDesc(acc, Head(pairs)))

SortedDesc(pairs) == SortedDescFrom(pairs, <<>>)


(***************************************************************************)
(* compute_suggestion, section by section                                  *)
(***************************************************************************)

None == [kind |-> "None"]

NoClearWinner == <<"N", "o", " ", "c", "l", "e", "a", "r", " ",
                   "w", "i", "n", "n", "e", "r">>

(* Index of name in by_person, 0 when the person is not there yet. *)
PersonIndex(bp, name) ==
    IF \E i \in 1..Len(bp) : bp[i].name = name
    THEN CHOOSE i \in 1..Len(bp) : bp[i].name = name
    ELSE 0

(* One iteration of the grouping loop: by_person is a dict, which keeps    *)
(* its keys in insertion order, so it is a sequence of persons here.       *)
AddRecord(bp, r) ==
    LET bp1 == IF PersonIndex(bp, r.name) = 0
               THEN Append(bp, [name |-> r.name, slots |-> <<>>, events |-> <<>>])
               ELSE bp
        j   == PersonIndex(bp1, r.name)
    IN  [bp1 EXCEPT ![j].slots  = Append(@, <<r.start_time, r.end_time>>),
                    ![j].events = IF r.preferred_event # <<>>
                                  THEN Append(@, Strip(r.preferred_event))
                                  ELSE @]

RECURSIVE GroupFrom(_, _)
GroupFrom(recs, bp) ==
    IF recs = <<>> THEN bp ELSE GroupFrom(Tail(recs), AddRecord(bp, Head(recs)))

GroupByPerson(recs) == GroupFrom(recs, <<>>)

RECURSIVE SlotTimes(_)
SlotTimes(slots) ==
    IF slots = <<>> THEN <<>>
    ELSE <<Head(slots)[1], Head(slots)[2]>> \o SlotTimes(Tail(slots))

RECURSIVE AllTimes(_)
AllTimes(bp) ==
    IF bp = <<>> THEN <<>> ELSE SlotTimes(Head(bp).slots) \o AllTimes(Tail(bp))

(* all_times_sorted[0] and all_times_sorted[-1], parsed *)
StartOfDay(all_times_sorted) == Strptime(all_times_sorted[1])

EndOfDay(all_times_sorted) == Strptime(all_times_sorted[Len(all_times_sorted)])

(* A grid anchored at the half hour at or before the first boundary. *)
RECURSIVE BuildTimelineAligned(_, _)
BuildTimelineAligned(current, end_of_day) ==
    LET c == current - (current % TIME_STEP_MINUTES)
    IN  IF c + TIME_STEP_MINUTES <= end_of_day
        THEN <<c>> \o BuildTimelineAligned(c + TIME_STEP_MINUTES, end_of_day)
        ELSE <<>>

(* A loop that stops one step early: current + step < end_of_day. *)
RECURSIVE BuildTimelineStrict(_, _)
BuildTimelineStrict(current, end_of_day) ==
    IF current + TIME_STEP_MINUTES < end_of_day
    THEN <<current>> \o BuildTimelineStrict(current + TIME_STEP_MINUTES, end_of_day)
    ELSE <<>>

RECURSIVE BuildTimeline(_, _)
BuildTimeline(current, end_of_day) ==
    IF current + TIME_STEP_MINUTES <= end_of_day
    THEN <<current>> \o BuildTimeline(current + TIME_STEP_MINUTES, end_of_day)
    ELSE <<>>

(* A slot counts as soon as it overlaps the step. *)
CoversPartly(slot, t) ==
    Strptime(slot[1]) < t + TIME_STEP_MINUTES /\ Strptime(slot[2]) > t

Covers(slot, t) ==
    Strptime(slot[1]) <= t /\ Strptime(slot[2]) >= t + TIME_STEP_MINUTES

(* The inner loop without its break: every covering slot counts. *)
RECURSIVE PersonFreeNoBreak(_, _)
PersonFreeNoBreak(slots, t) ==
    IF slots = <<>> THEN 0
    ELSE (IF Covers(Head(slots), t) THEN 1 ELSE 0) + PersonFreeNoBreak(Tail(slots), t)

(* The inner loop over one person's slots: 1 at the first covering slot    *)
(* (count += 1; break), 0 when the loop runs out.                          *)
RECURSIVE PersonFree(_, _)
PersonFree(slots, t) ==
    IF slots = <<>> THEN 0
    ELSE IF Covers(Head(slots), t) THEN 1
    ELSE PersonFree(Tail(slots), t)

RECURSIVE FreeCount(_, _)
FreeCount(bp, t) ==
    IF bp = <<>> THEN 0 ELSE PersonFree(Head(bp).slots, t) + FreeCount(Tail(bp), t)

RECURSIVE FreeCounts(_, _)
FreeCounts(tl, bp) ==
    IF tl = <<>> THEN <<>> ELSE <<FreeCount(bp, Head(tl))>> \o FreeCounts(Tail(tl), bp)

(* max(free_counts), for a non-empty list *)
MaxFree(fc) == CHOOSE m \in {fc[i] : i \in 1..Len(fc)} : \A i \in 1..Len(fc) : fc[i] <= m

(* The inner while of the block scan: the last index of the run at i. *)
RECURSIVE RunEnd(_, _, _)
RunEnd(fc, max_free, i) ==
    IF i + 1 <= Len(fc) /\ fc[i + 1] = max_free THEN RunEnd(fc, max_free, i + 1) ELSE i

(* A block that ends where its last step starts. *)
RECURSIVE BlocksFromNoStep(_, _, _, _)
BlocksFromNoStep(tl, fc, max_free, i) ==
    IF i > Len(tl) THEN <<>>
    ELSE IF fc[i] = max_free
         THEN LET j == RunEnd(fc, max_free, i)
              IN  <<<<tl[i], tl[j]>>>> \o BlocksFromNoStep(tl, fc, max_free, j + 1)
         ELSE BlocksFromNoStep(tl, fc, max_free, i + 1)

RECURSIVE BlocksFrom(_, _, _, _)
BlocksFrom(tl, fc, max_free, i) ==
    IF i > Len(tl) THEN <<>>
    ELSE IF fc[i] = max_free
         THEN LET j == RunEnd(fc, max_free, i)
              IN  <<<<tl[i], tl[j] + TIME_STEP_MINUTES>>>>
                      \o BlocksFrom(tl, fc, max_free, j + 1)
         ELSE BlocksFrom(tl, fc, max_free, i + 1)

BestBlocks(tl, fc, max_free) == BlocksFrom(tl, fc, max_free, 1)

(* key=lambda b: (b[1] - b[0]): each block paired with its duration. *)
RECURSIVE ByDuration(_)
ByDuration(blocks) ==
    IF blocks = <<>> THEN <<>>
    ELSE <<<<Head(blocks)[2] - Head(blocks)[1], Head(blocks)>>>> \o ByDuration(Tail(blocks))

(* The last of the sorted blocks instead of the first. *)
BestBlockLast(blocks) ==
    LET sorted == SortedDesc(ByDuration(blocks))
    IN  sorted[Len(sorted)][2]

(* best_blocks.sort(key=duration, reverse=True); best_blocks[0] *)
BestBlock(blocks) == SortedDesc(ByDuration(blocks))[1][2]

(* The events of every person, in the order the two vote loops visit them. *)
RECURSIVE AllEvents(_)
AllEvents(bp) ==
    IF bp = <<>> THEN <<>> ELSE Head(bp).events \o AllEvents(Tail(bp))

(* votes[key] = votes.get(key, 0) + 1 on a dict kept as a sequence of      *)
(* <<key, count>> in insertion order.                                      *)
RECURSIVE AddVote(_, _)
AddVote(vs, key) ==
    IF vs = <<>> THEN <<<<key, 1>>>>
    ELSE IF Head(vs)[1] = key THEN <<<<key, Head(vs)[2] + 1>>>> \o Tail(vs)
    ELSE <<Head(vs)>> \o AddVote(Tail(vs), key)

RECURSIVE VotesFrom(_, _)
VotesFrom(events, vs) ==
    IF events = <<>> THEN vs
    ELSE LET label == Strip(Head(events))
         IN  IF label = <<>> THEN VotesFrom(Tail(events), vs)
             ELSE VotesFrom(Tail(events), AddVote(vs, Lower(label)))

Votes(bp) == VotesFrom(AllEvents(bp), <<>>)

(* The last key of the highest count instead of the first. *)
TopKeyLast(vs) ==
    LET m == CHOOSE c \in {vs[i][2] : i \in 1..Len(vs)} :
                 \A i \in 1..Len(vs) : vs[i][2] <= c
        k == CHOOSE i \in 1..Len(vs) :
                 vs[i][2] = m /\ \A j \in (i + 1)..Len(vs) : vs[j][2] < m
    IN  vs[k][1]

(* key=lambda kv: kv[1]: each item paired with its count. *)
RECURSIVE ByCount(_)
ByCount(vs) ==
    IF vs = <<>> THEN <<>> ELSE <<<<Head(vs)[2], Head(vs)>>>> \o ByCount(Tail(vs))

(* sorted(votes.items(), key=count, reverse=True)[0][0] *)
TopKey(vs) == SortedDesc(ByCount(vs))[1][2][1]

(* The normalized key itself is shown. *)
PreferredEventKey(bp, vs) ==
    IF vs # <<>> THEN TopKey(vs) ELSE NoClearWinner

(* The first original label that matches the top key, or the sentinel. *)
PreferredEvent(bp, vs) ==
    IF vs # <<>>
    THEN LET events == AllEvents(bp)
             top == TopKey(vs)
             hit(i) == Lower(Strip(events[i])) = top
             pretty == IF \E i \in 1..Len(events) : hit(i)
                       THEN Strip(events[CHOOSE i \in 1..Len(events) :
                                hit(i) /\ \A j \in 1..(i - 1) : ~hit(j)])
                       ELSE <<>>
         IN  IF pretty # <<>> THEN pretty ELSE top
    ELSE NoClearWinner

(***************************************************************************)
(* The record lists compute_suggestion is called with                      *)
(***************************************************************************)

(* The person names of the generated lists, in the store's text order. *)
Names == <<"Alice", "Bob">>

NameRank(n) ==
    CASE n = "Alice" -> 1 [] n = "Bob" -> 2 [] n = "Carol" -> 3

(* Boundary times of the generated lists, in minutes: 09:00, 09:15, 09:30, *)
(* 10:00, 11:00.  09:15 puts boundaries off the half-hour grid.            *)
TimeMinutes == {540, 555, 570, 600, 660}

Times == {Strftime(m) : m \in TimeMinutes}

(* submit() stores a slot only when its end is after its start. *)
Slots == {sl \in Times \X Times : Strptime(sl[1]) < Strptime(sl[2])}

Picnic     == <<"P", "i", "c", "n", "i", "c">>
Hiking     == <<"H", "i", "k", "i", "n", "g">>
BoardGames == <<"B", "o", "a", "r", "d", " ", "G", "a", "m", "e", "s">>
boardgames == <<"b", "o", "a", "r", "d", " ", "g", "a", "m", "e", "s">>
Trivia     == <<"T", "r", "i", "v", "i", "a">>

Rec(n, sl, ev) ==
    [name |-> n, start_time |-> sl[1], end_time |-> sl[2], preferred_event |-> ev]

(* Records that vary the slot: every slot, with or without an event. *)
WindowRecords ==
    {Rec(Names[i], sl, IF i = 1 THEN Picnic ELSE <<>>) : i \in 1..Len(Names), sl \in Slots}

(* Records that vary the event label over one slot; a stored label is     *)
(* empty (NULL in the store, line 76) or stripped (line 242).              *)
VoteRecords ==
    {Rec(Names[i], <<Strftime(540), Strftime(600)>>, ev) :
        i \in 1..Len(Names), ev \in {<<>>, BoardGames, boardgames, Trivia}}

(* ORDER BY name, start_time: b may follow a in the result.  Rows equal in *)
(* both columns come in either order.                                      *)
OrderedBy(a, b) ==
    \/ NameRank(a.name) < NameRank(b.name)
    \/ a.name = b.name /\ StrLeq(a.start_time, b.start_time)

(* The lists get_day_records can return for up to n stored rows. *)
RECURSIVE DayRecords(_, _)
DayRecords(rows, n) ==
    IF n = 0 THEN {<<>>}
    ELSE LET shorter == DayRecords(rows, n - 1)
             longest == {l \in shorter : Len(l) = n - 1}
         IN  shorter \cup
             {Append(p[1], p[2]) :
                 p \in {q \in longest \X rows :
                           q[1] = <<>> \/ OrderedBy(q[1][Len(q[1])], q[2])}}

(* Alice 09:00-12:00 Picnic, Bob 10:00-11:00 Picnic, Carol 10:30-11:30     *)
(* Hiking.                                                                 *)
ThreePeople ==
    << Rec("Alice", <<Strftime(540), Strftime(720)>>, Picnic),
       Rec("Bob",   <<Strftime(600), Strftime(660)>>, Picnic),
       Rec("Carol", <<Strftime(630), Strftime(690)>>, Hiking) >>

(* A single person with the single interval 09:00-12:00. *)
OnePerson == << Rec("Alice", <<Strftime(540), Strftime(720)>>, Picnic) >>

Inputs ==
    DayRecords(WindowRecords, MaxRecords) \cup DayRecords(VoteRecords, MaxRecords)
        \cup {ThreePeople, OnePerson}

(***************************************************************************)
(* The state machine: one call of compute_suggestion per behaviour         *)
(***************************************************************************)

Init ==
    /\ records \in Inputs
    /\ pc = "call"
    /\ by_person = <<>>
    /\ timeline = <<>>
    /\ free_counts = <<>>
    /\ best_blocks = <<>>
    /\ votes = <<>>
    /\ top_key = <<>>
    /\ result = None

(* if not records: return None *)
ReturnNoRecords ==
    /\ pc = "call"
    /\ records = <<>>
    /\ result' = None
    /\ pc' = "done"
    /\ UNCHANGED <<records, by_person, timeline, free_counts, best_blocks, votes, top_key>>

(* The day span is empty or inverted, or shorter than one step.  With at   *)
(* least one record by_person and all_times are never empty.               *)
ReturnNoTimeline ==
    /\ pc = "call"
    /\ records # <<>>
    /\ LET bp == GroupByPerson(records)
           all_times_sorted == SortedStr(AllTimes(bp))
           start_of_day == StartOfDay(all_times_sorted)
           end_of_day == EndOfDay(all_times_sorted)
           tl == IF start_of_day >= end_of_day THEN <<>>
                 ELSE BuildTimeline(start_of_day, end_of_day)
       IN  /\ tl = <<>>
           /\ by_person' = bp
           /\ timeline' = tl
    /\ result' = None
    /\ pc' = "done"
    /\ UNCHANGED <<records, free_counts, best_blocks, votes, top_key>>

(* max_free <= 0: nobody is free in any step. *)
ReturnNoCoverage ==
    /\ pc = "call"
    /\ records # <<>>
    /\ LET bp == GroupByPerson(records)
           all_times_sorted == SortedStr(AllTimes(bp))
           start_of_day == StartOfDay(all_times_sorted)
           end_of_day == EndOfDay(all_times_sorted)
           tl == BuildTimeline(start_of_day, end_of_day)
           fc == FreeCounts(tl, bp)
       IN  /\ start_of_day < end_of_day
           /\ tl # <<>>
           /\ MaxFree(fc) <= 0
           /\ by_person' = bp
           /\ timeline' = tl
           /\ free_counts' = fc
    /\ result' = None
    /\ pc' = "done"
    /\ UNCHANGED <<records, best_blocks, votes, top_key>>

(* The whole computation: the longest block of the highest count and the   *)
(* most voted event.  best_blocks is never empty when max_free > 0.        *)
ReturnSuggestion ==
    /\ pc = "call"
    /\ records # <<>>
    /\ LET bp == GroupByPerson(records)
           all_times_sorted == SortedStr(AllTimes(bp))
           start_of_day == StartOfDay(all_times_sorted)
           end_of_day == EndOfDay(all_times_sorted)
           tl == BuildTimeline(start_of_day, end_of_day)
           fc == FreeCounts(tl, bp)
           max_free == MaxFree(fc)
           blocks == BestBlocks(tl, fc, max_free)
           best == BestBlock(blocks)
           vs == Votes(bp)
       IN  /\ start_of_day < end_of_day
           /\ tl # <<>>
           /\ max_free > 0
           /\ blocks # <<>>
           /\ by_person' = bp
           /\ timeline' = tl
           /\ free_counts' = fc
           /\ best_blocks' = blocks
           /\ votes' = vs
           /\ top_key' = IF vs # <<>> THEN TopKey(vs) ELSE <<>>
           /\ result' = [kind |-> "Suggestion",
                         max_free |-> max_free,
                         total_people |-> Len(bp),
                         start |-> Strftime(best[1]),
                         end |-> Strftime(best[2]),
                         event |-> PreferredEvent(bp, vs)]
    /\ pc' = "done"
    /\ UNCHANGED records

Next ==
    \/ ReturnNoRecords
    \/ ReturnNoTimeline
    \/ ReturnNoCoverage
    \/ ReturnSuggestion

Spec == Init /\ [][Next]_vars

(***************************************************************************)
(* Vocabulary of the properties, defined on the records alone              *)
(***************************************************************************)

People == {records[i].name : i \in 1..Len(records)}

StartMin(i) == Strptime(records[i].start_time)
EndMin(i)   == Strptime(records[i].end_time)

Boundaries ==
    {StartMin(i) : i \in 1..Len(records)} \cup {EndMin(i) : i \in 1..Len(records)}

MinOf(S) == CHOOSE m \in S : \A b \in S : m <= b
MaxOf(S) == CHOOSE m \in S : \A b \in S : b <= m

(* The minimum and the maximum boundary timestamp, as times. *)
DayStart == MinOf(Boundaries)
DayEnd   == MaxOf(Boundaries)

(* The starts of the 30-minute steps [t, t + 30) of the grid anchored at   *)
(* day_start that end by day_end.                                          *)
GridFrom(day_start, day_end) ==
    {t \in {day_start + TIME_STEP_MINUTES * k : k \in 0..47} :
        t + TIME_STEP_MINUTES <= day_end}

GridSteps == GridFrom(DayStart, DayEnd)

(* Person p has an interval that fully contains the step at t. *)
IsFree(p, t) ==
    \E i \in 1..Len(records) :
        /\ records[i].name = p
        /\ StartMin(i) <= t
        /\ EndMin(i) >= t + TIME_STEP_MINUTES

Coverage(t) == Cardinality({p \in People : IsFree(p, t)})

(* The highest coverage of a step of grid. *)
MaxCoverage(grid) == MaxOf({Coverage(t) : t \in grid})

Returned == pc = "done" /\ result # None

WindowStart == Strptime(result.start)
WindowEnd   == Strptime(result.end)

(* The steps of grid that lie in the returned window. *)
WindowSteps(grid) ==
    {t \in grid : WindowStart <= t /\ t + TIME_STEP_MINUTES <= WindowEnd}

(* [a, b) is a maximal run of consecutive steps of grid, top being the     *)
(* steps of the highest coverage: the step before a and the step at b, if  *)
(* they exist, have a lower coverage.                                      *)
IsRun(a, b, grid, top) ==
    /\ a < b
    /\ \A t \in grid : (a <= t /\ t < b) => t \in top
    /\ (a - TIME_STEP_MINUTES) \notin top
    /\ b \notin top

Runs(grid) ==
    LET max_coverage == MaxCoverage(grid)
        top == {t \in grid : Coverage(t) = max_coverage}
    IN  {r \in grid \X {t + TIME_STEP_MINUTES : t \in grid} : IsRun(r[1], r[2], grid, top)}

(* The records that carry an event label, and the votes they cast. *)
LabelIdx == {i \in 1..Len(records) : records[i].preferred_event # <<>>}

KeyAt(i) == Lower(records[i].preferred_event)

Keys == {KeyAt(i) : i \in LabelIdx}

VoteCount(k) == Cardinality({i \in LabelIdx : KeyAt(i) = k})

FirstIdx(k) ==
    CHOOSE i \in LabelIdx : KeyAt(i) = k /\ \A j \in LabelIdx : KeyAt(j) = k => i <= j

(* k has the highest count and, among the keys of that count, the earliest *)
(* first occurrence in the record list.                                    *)
Wins(k) ==
    /\ k \in Keys
    /\ \A k2 \in Keys :
          \/ VoteCount(k2) < VoteCount(k)
          \/ VoteCount(k2) = VoteCount(k) /\ FirstIdx(k) <= FirstIdx(k2)

(***************************************************************************)
(* Properties                                                              *)
(***************************************************************************)

(* C1: a returned suggestion has 1 <= max_free <= total_people, and        *)
(* total_people is the number of distinct person names of the records,     *)
(* also when one person has several intervals covering the same step.      *)
C1_CoverageWithinPeople ==
    Returned =>
        /\ 1 <= result.max_free
        /\ result.max_free <= result.total_people
        /\ result.total_people = Cardinality(People)

(* C1 witness: a suggestion where one person has two intervals that cover  *)
(* the same step and max_free equals total_people.                         *)
C1_Witness ==
    /\ Returned
    /\ result.max_free = result.total_people
    /\ \E i, j \in 1..Len(records), t \in GridSteps :
          /\ i < j
          /\ records[i].name = records[j].name
          /\ StartMin(i) <= t /\ EndMin(i) >= t + TIME_STEP_MINUTES
          /\ StartMin(j) <= t /\ EndMin(j) >= t + TIME_STEP_MINUTES

(* C2: both boundaries of a returned window lie on the 30-minute grid      *)
(* anchored at the minimum boundary: start = DayStart + 30k, end =         *)
(* DayStart + 30m with 0 <= k < m, and end <= DayEnd.                      *)
C2_WindowOnGrid ==
    Returned =>
        \E k \in 0..47, m \in 1..48 :
            /\ k < m
            /\ WindowStart = DayStart + TIME_STEP_MINUTES * k
            /\ WindowEnd = DayStart + TIME_STEP_MINUTES * m
            /\ WindowEnd <= DayEnd

(* C2 witness: the grid is anchored off the half hour and the window       *)
(* starts after the first step.                                            *)
C2_Witness ==
    /\ Returned
    /\ DayStart % TIME_STEP_MINUTES # 0
    /\ WindowStart > DayStart

(* C3: some set of max_free distinct people is free in every step of the   *)
(* returned window, and no step of the timeline has more than max_free     *)
(* people free.                                                            *)
C3_SimultaneouslyFree ==
    Returned =>
        LET grid == GridSteps
            window == WindowSteps(grid)
        IN  /\ \E S \in SUBSET People :
                  /\ Cardinality(S) = result.max_free
                  /\ \A p \in S, t \in window : IsFree(p, t)
            /\ \A t \in grid : Coverage(t) <= result.max_free

(* Exactly two people with one interval each, the intervals sharing no     *)
(* time.                                                                   *)
TwoDisjoint ==
    /\ Len(records) = 2
    /\ records[1].name # records[2].name
    /\ (EndMin(1) <= StartMin(2) \/ EndMin(2) <= StartMin(1))

(* C4: for two people with one interval each and no time overlap, every    *)
(* step has coverage at most 1, a suggestion has max_free = 1, and the     *)
(* window is the longer of the two intervals.                              *)
C4_LongerOfTwoDisjoint ==
    (pc = "done" /\ TwoDisjoint) =>
        /\ \A t \in GridSteps : Coverage(t) <= 1
        /\ Returned =>
              /\ result.max_free = 1
              /\ \E i \in 1..2 :
                    /\ result.start = records[i].start_time
                    /\ result.end = records[i].end_time
                    /\ \A j \in 1..2 : EndMin(j) - StartMin(j) <= EndMin(i) - StartMin(i)

(* The degenerate cases: no record, a day span that is empty or inverted,  *)
(* a day span shorter than one step, or no step that anyone fully covers.  *)
Degenerate ==
    IF records = <<>> THEN TRUE
    ELSE \/ DayStart >= DayEnd
         \/ DayEnd - DayStart < TIME_STEP_MINUTES
         \/ \A t \in GridSteps : Coverage(t) = 0

(* C5: compute_suggestion returns None in each degenerate case and a       *)
(* suggestion in every other case.                                         *)
C5_NoneIffDegenerate ==
    pc = "done" => (result = None <=> Degenerate)

(* C5 witness: None is returned although the timeline has steps, because   *)
(* nobody fully covers any of them.                                        *)
C5_Witness ==
    /\ pc = "done"
    /\ result = None
    /\ records # <<>>
    /\ GridSteps # {}

(* C6: every non-empty label counts one vote under its lower-cased key;    *)
(* the winning key has the highest count and, on a tie, the earliest first *)
(* occurrence in the order of the record list.                             *)
C6_VoteWinner ==
    (Returned /\ LabelIdx # {}) =>
        /\ {votes[i][1] : i \in 1..Len(votes)} = Keys
        /\ \A i \in 1..Len(votes) : votes[i][2] = VoteCount(votes[i][1])
        /\ Wins(top_key)

(* C6 witness: two keys tie for the highest count. *)
C6_Witness ==
    /\ Returned
    /\ LabelIdx # {}
    /\ \E k \in Keys : k # top_key /\ VoteCount(k) = VoteCount(top_key)

(* C7: the event of a suggestion is the label, in its original casing, of  *)
(* the first occurrence of the winning key, and it is "No clear winner"    *)
(* exactly when no record carries a non-empty label; the labels "Board     *)
(* Games", "board games", "Trivia" display "Board Games".                  *)
C7_DisplayedEvent ==
    Returned =>
        /\ IF LabelIdx = {}
           THEN result.event = NoClearWinner
           ELSE /\ result.event # NoClearWinner
                /\ \E k \in Keys :
                      Wins(k) /\ result.event = records[FirstIdx(k)].preferred_event
        /\ [i \in 1..Len(records) |-> records[i].preferred_event]
               = <<BoardGames, boardgames, Trivia>>
           => result.event = BoardGames

(* C7 witness: the labels "Board Games", "board games", "Trivia". *)
C7_Witness ==
    /\ Returned
    /\ [i \in 1..Len(records) |-> records[i].preferred_event]
           = <<BoardGames, boardgames, Trivia>>
    /\ result.event # Lower(result.event)

(* C8: a single person with a single interval [s, e) of at least 30        *)
(* minutes gets a suggestion with max_free = 1, total_people = 1, start s  *)
(* and end s + 30 * floor((e - s) / 30); 09:00-12:00 gives 09:00-12:00.    *)
C8_SingleInterval ==
    (pc = "done" /\ Len(records) = 1 /\ EndMin(1) - StartMin(1) >= TIME_STEP_MINUTES) =>
        /\ result # None
        /\ result.max_free = 1
        /\ result.total_people = 1
        /\ result.start = records[1].start_time
        /\ result.end = Strftime(StartMin(1) + TIME_STEP_MINUTES *
                                   ((EndMin(1) - StartMin(1)) \div TIME_STEP_MINUTES))
        /\ records = OnePerson =>
              result.start = <<0, 9, 0, 0>> /\ result.end = <<1, 2, 0, 0>>

(* C8 witness: a single interval whose length is no multiple of 30         *)
(* minutes, so the window is shorter than the interval.                    *)
C8_Witness ==
    /\ Returned
    /\ Len(records) = 1
    /\ (EndMin(1) - StartMin(1)) % TIME_STEP_MINUTES # 0
    /\ result.end # records[1].end_time

(* C9: the returned window is a maximal run of steps of the highest        *)
(* coverage; no other maximal run is longer, and every other maximal run   *)
(* of the same duration starts later.                                      *)
C9_LongestFirstRun ==
    Returned =>
        LET runs == Runs(GridSteps)
            window == <<WindowStart, WindowEnd>>
        IN  /\ window \in runs
            /\ \A r \in runs \ {window} :
                  \/ r[2] - r[1] < window[2] - window[1]
                  \/ r[2] - r[1] = window[2] - window[1] /\ r[1] > window[1]

(* C9 witness: another maximal run has the duration of the returned one. *)
C9_Witness ==
    /\ Returned
    /\ \E r \in Runs(GridSteps) :
          r # <<WindowStart, WindowEnd>> /\ r[2] - r[1] = WindowEnd - WindowStart

(* C10: the count of every timeline step is the number of distinct people  *)
(* with an interval that fully contains the step; Alice 09:00-12:00, Bob   *)
(* 10:00-11:00, Carol 10:30-11:30 give 1,1,2,3,2,1 and the window          *)
(* 10:30-11:00 with max_free 3 of 3 people.                                *)
C10_CoverageCounts ==
    (pc = "done" /\ free_counts # <<>>) =>
        /\ Len(free_counts) = Cardinality(GridSteps)
        /\ Len(timeline) = Len(free_counts)
        /\ \A i \in 1..Len(timeline) :
              /\ timeline[i] = DayStart + TIME_STEP_MINUTES * (i - 1)
              /\ free_counts[i] = Coverage(timeline[i])
        /\ records = ThreePeople =>
              /\ free_counts = <<1, 1, 2, 3, 2, 1>>
              /\ result # None
              /\ result.start = <<1, 0, 3, 0>>
              /\ result.end = <<1, 1, 0, 0>>
              /\ result.max_free = 3
              /\ result.total_people = 3

(* C10 witness: the three-person scenario has been computed. *)
C10_Witness ==
    /\ pc = "done"
    /\ records = ThreePeople
    /\ free_counts = <<1, 1, 2, 3, 2, 1>>

====
